---- MODULE Spec2Model ----
(***************************************************************************)
(* aws-autoscaling-rollout.py: rolling replacement of the members of an    *)
(* autoscaling group.  The script is one sequential process (pc) that      *)
(* polls and mutates a cloud control plane; the control plane (launching,  *)
(* health, load balancer registration, draining, removal) moves on its own *)
(* between the script's calls.                                             *)
(***************************************************************************)
EXTENDS Integers, Sequences, FiniteSets, TLC

\* ------------------------------------------------------------------ bounds
\* Largest number of members the fleet has when the run starts.
MaxInitial == 2
\* Number of instances the control plane can launch during a run.
MaxLaunch == 2

\* Number of instance ids the answers fed to a wait function range over.
MaxPoll == 2
\* Largest length of a list handed to a list function.
MaxLen == 3

Ids == 1..(MaxInitial + MaxLaunch)
\* The ids the answers fed to a function are about.
PollIds == 1..MaxPoll

\* --------------------------------------------------------- program constants
required_processes == {"Terminate", "Launch", "HealthCheck", "AddToLoadBalancer"}
suspend_new_processes == {"ScheduledActions", "AlarmNotification", "AZRebalance"}

\* Names of the traffic sources a fleet of the model can be attached to.
LBNames == {"elb"}
TGNames == {"tg"}

VARIABLES
    \* the options of the command line
    options,
    \* the control plane: the autoscaling group and its traffic sources
    exists,               \* the name given with -a resolves to a group
    MaxSize,
    DesiredCapacity,
    SuspendedProcesses,
    LoadBalancerNames,
    TargetGroupARNs,
    inst,                 \* id -> "none" | "pending" | "healthy" | "terminating" | "gone"
    updated,              \* ids launched from the group's current configuration
    att,                  \* source -> id -> "absent" | "out" | "in" | "draining"
    \* the script
    pc,
    exitCode,             \* -1 while running
    autoscaler_old_max_size,
    autoscaler_old_desired_capacity,
    autoscalerDC,         \* autoscaler['DesiredCapacity'] of the last fetched description
    desired_capacity,     \* local of wait_for_autoscaler_to_have_healthy_desired_instances
    instances_to_kill,
    current_instance_list,
    new_instances,
    i,                    \* 1-based loop index; 0 before the loop
    k,                    \* index in the sequence of traffic sources being walked
    downscaled,
    retval,               \* what the last command run around a termination returned
    \* find_aws_instances_in_first_list_but_not_in_second called by itself
    first_list,
    second_list,
    output,
    \* observation of the run
    calls,                \* the log of the run: the mutation requests made and what the waits saw, in order
    absentSeen,           \* <<source, id>>: a removal poll of the loop saw id absent;
                          \* <<source, 0>>: a poll of the detachment wait saw no
                          \* instance to kill listed by source
    start                 \* the group's settings when the run started

vars == <<options, exists, MaxSize, DesiredCapacity, SuspendedProcesses,
          LoadBalancerNames, TargetGroupARNs, inst, updated, att, pc, exitCode,
          autoscaler_old_max_size, autoscaler_old_desired_capacity, autoscalerDC,
          desired_capacity, instances_to_kill, current_instance_list,
          new_instances, i, k, downscaled, retval, first_list, second_list, output,
          calls, absentSeen, start>>

static == <<options, start>>

\* The arguments and the result of the list function called by itself.
lists == <<first_list, second_list, output>>

cloud == <<exists, MaxSize, DesiredCapacity, SuspendedProcesses,
           LoadBalancerNames, TargetGroupARNs, inst, updated, att>>
locals == <<autoscaler_old_max_size, autoscaler_old_desired_capacity, autoscalerDC,
            desired_capacity, instances_to_kill, current_instance_list,
            new_instances, i, k, downscaled>>

\* ----------------------------------------------------------------- helpers
RECURSIVE SortedSeq(_)
SortedSeq(S) ==
    IF S = {} THEN <<>>
    ELSE LET m == CHOOSE x \in S : \A y \in S : x <= y
         IN <<m>> \o SortedSeq(S \ {m})

Range(s) == {s[j] : j \in 1..Len(s)}

\* autoscaler['Instances'] in the order the control plane lists them.
Instances == SortedSeq({id \in Ids : inst[id] \in {"pending", "healthy", "terminating"}})

\* HealthStatus the group reports for a member: an instance being terminated
\* is still listed, and listed Healthy, until the control plane removes it.
HealthStatus(id) == IF inst[id] \in {"healthy", "terminating"} THEN "Healthy" ELSE "Unhealthy"

get_autoscaler_healthy_instances ==
    SelectSeq(Instances, LAMBDA id : HealthStatus(id) = "Healthy")

get_number_of_autoscaler_healthy_instances == Len(get_autoscaler_healthy_instances)

\* The traffic sources in the order the script walks them: load balancers, then
\* target groups.
RECURSIVE ListOf(_)
ListOf(S) ==
    IF S = {} THEN <<>>
    ELSE LET x == CHOOSE y \in S : TRUE IN <<x>> \o ListOf(S \ {x})

Sources == ListOf(LoadBalancerNames) \o ListOf(TargetGroupARNs)

IsLB(src) == src \in LBNames

\* One record of the log of a run: a mutation request, or what a wait saw.
Call(op, id, src, val, procs, ok) ==
    [op |-> op, id |-> id, src |-> src, val |-> val, procs |-> procs,
     dec |-> FALSE, ok |-> ok]

Exit(code) ==
    /\ pc' = "Done"
    /\ exitCode' = code

Running == pc # "Done"

\* -------------------------------------------------------------------- Init
\* The sets of processes suspended when the run starts: none, an ancillary
\* one, a required one.
InitSuspendedChoices ==
    {{}, {"AZRebalance"}, {"Launch"}}

\* The command lines of the runs: every combination of --force,
\* --skip-elb-health-check and --check-if-instances-need-to-be-terminated with no
\* external command, and every combination of the three external commands
\* with none of these flags.
OptionChoices ==
    {o \in [force : BOOLEAN, skip : BOOLEAN,
            checkifnewserverisupcommand : BOOLEAN,
            runbeforeserverdowncommand : BOOLEAN,
            runafterserverdowncommand : BOOLEAN,
            checkifinstancesneedtobeterminated : BOOLEAN] :
        (o.force \/ o.skip \/ o.checkifinstancesneedtobeterminated)
            => ~(o.checkifnewserverisupcommand \/ o.runbeforeserverdowncommand
                 \/ o.runafterserverdowncommand)}

Init ==
    /\ options \in OptionChoices
    /\ exists \in BOOLEAN
    \* A name that resolves to no group has no members, sources or processes.
    /\ \E n \in 0..(IF exists THEN MaxInitial ELSE 0) :
          \* The newest member may still be on its way to Healthy.
          /\ \E last \in (IF n > 0 THEN {"healthy", "pending"} ELSE {"healthy"}) :
                inst = [id \in Ids |-> IF id < n THEN "healthy"
                                       ELSE IF id = n THEN last ELSE "none"]
          /\ DesiredCapacity = n
          /\ MaxSize \in IF exists THEN {n, n + 1} ELSE {n}
          \* The configuration of a member is read only under
          \* --check-if-instances-need-to-be-terminated.
          /\ \E u \in (IF options.checkifinstancesneedtobeterminated
                        THEN SUBSET (1..n) ELSE {{}}) :
                updated = u \cup {id \in Ids : id > n}
    /\ SuspendedProcesses \in IF exists THEN InitSuspendedChoices ELSE {{}}
    /\ LoadBalancerNames \in IF exists THEN SUBSET LBNames ELSE {{}}
    /\ TargetGroupARNs \in IF exists THEN SUBSET TGNames ELSE {{}}
    /\ att = [src \in LBNames \cup TGNames |->
                [id \in Ids |-> IF inst[id] = "healthy"
                                   /\ src \in LoadBalancerNames \cup TargetGroupARNs
                                THEN "in" ELSE "absent"]]
    /\ pc = "Validate"
    /\ exitCode = -1
    /\ autoscaler_old_max_size = 0
    /\ autoscaler_old_desired_capacity = 0
    /\ autoscalerDC = 0
    /\ desired_capacity = 0
    /\ instances_to_kill = <<>>
    /\ current_instance_list = <<>>
    /\ new_instances = <<>>
    /\ i = 0
    /\ k = 0
    /\ downscaled = FALSE
    /\ retval = 0
    /\ first_list = <<>>
    /\ second_list = <<>>
    /\ output = <<>>
    /\ calls = <<>>
    /\ absentSeen = {}
    /\ start = [MaxSize |-> MaxSize, DesiredCapacity |-> DesiredCapacity,
                SuspendedProcesses |-> SuspendedProcesses]

\* ------------------------------------------------- control plane mutations
\* A mutation request answers 200 (ok) or not; it takes effect only when ok.

\* update_auto_scaling_group_max_size
update_auto_scaling_group_max_size(max_size, ok) ==
    /\ calls' = Append(calls, Call("update_max_size", 0, "", max_size, {}, ok))
    /\ MaxSize' = IF ok THEN max_size ELSE MaxSize

\* set_desired_capacity: exit(1) when the answer is not 200
set_desired_capacity(value, ok) ==
    /\ calls' = Append(calls, Call("set_desired_capacity", 0, "", value, {}, ok))
    /\ DesiredCapacity' = IF ok THEN value ELSE DesiredCapacity

suspend_processes(processes_to_suspend, ok) ==
    /\ calls' = Append(calls, Call("suspend_processes", 0, "", 0, processes_to_suspend, ok))
    /\ SuspendedProcesses' = IF ok THEN SuspendedProcesses \cup processes_to_suspend
                             ELSE SuspendedProcesses

resume_processes(processes_to_resume, ok) ==
    /\ calls' = Append(calls, Call("resume_processes", 0, "", 0, processes_to_resume, ok))
    /\ SuspendedProcesses' = IF ok THEN SuspendedProcesses \ processes_to_resume
                             ELSE SuspendedProcesses

resume_all_processes(ok) ==
    /\ calls' = Append(calls, Call("resume_all_processes", 0, "", 0, {}, ok))
    /\ SuspendedProcesses' = IF ok THEN {} ELSE SuspendedProcesses

\* ------------------------------------------------------------ the script
\* Validate: get_autoscaling_group raises when the name resolves to no group
\* (or the describe call fails); the uncaught exception ends the process with
\* exit status 1.
\* Mutant: the lookup hands back a description for any name.
GroupFoundAnyName(readOk) == readOk

GroupFound(readOk) == exists /\ readOk

Validate ==
    /\ pc = "Validate"
    /\ \E readOk \in BOOLEAN :
          IF GroupFound(readOk)
          THEN /\ autoscaler_old_max_size' = MaxSize
               /\ autoscaler_old_desired_capacity' = DesiredCapacity
               /\ autoscalerDC' = DesiredCapacity
               /\ pc' = "ExpandHeadroom"
               /\ UNCHANGED exitCode
          ELSE /\ Exit(1)
               /\ UNCHANGED <<autoscaler_old_max_size, autoscaler_old_desired_capacity,
                              autoscalerDC>>
    /\ UNCHANGED <<static, lists, retval, cloud, desired_capacity, instances_to_kill,
                   current_instance_list, new_instances, i, k, downscaled,
                   calls, absentSeen>>

\* Mutant: the max size is left as it is.
NeedsExpandNever == FALSE

\* The test of line 707: the max size has to grow for a replacement to launch.
NeedsExpand == autoscaler_old_max_size = autoscaler_old_desired_capacity

\* Mutant: the run goes on whatever the answer to the request was.
HeadroomExpandedWhateverAnswer(ok) == TRUE

\* The test of line 709: update_auto_scaling_group_max_size(...) is True.
HeadroomExpanded(ok) == ok

ExpandHeadroom ==
    /\ pc = "ExpandHeadroom"
    /\ IF NeedsExpand
       THEN \E ok \in BOOLEAN :
               /\ update_auto_scaling_group_max_size(autoscaler_old_max_size + 1, ok)
               /\ IF HeadroomExpanded(ok) THEN pc' = "ProcessState" /\ UNCHANGED exitCode
                        ELSE Exit(1)
       ELSE /\ pc' = "ProcessState"
            /\ UNCHANGED <<MaxSize, calls, exitCode>>
    /\ UNCHANGED <<static, lists, retval, exists, DesiredCapacity, SuspendedProcesses,
                   LoadBalancerNames, TargetGroupARNs, inst, updated, att,
                   locals, absentSeen>>

\* Mutant: the required processes are checked under --force too.
ChecksSuspendedProcessesAlways == TRUE

\* The test of line 730: the check of lines 734-743 is made.
ChecksSuspendedProcesses == ~options.force

\* Mutant: a suspended required process is logged and the run goes on.
RequiredProcessSuspendedIgnored(suspended) == FALSE

\* Lines 736-742: succeed is False when a required process is in suspended.
RequiredProcessSuspended(suspended) == required_processes \cap suspended # {}

\* Lines 730-743: under --force every process is resumed; otherwise the run
\* ends when a required process is suspended.
ProcessState ==
    /\ pc = "ProcessState"
    /\ IF ~ChecksSuspendedProcesses
       THEN /\ \E ok \in BOOLEAN : resume_all_processes(ok)
            /\ pc' = "SuspendProcesses"
            /\ UNCHANGED exitCode
       ELSE /\ IF RequiredProcessSuspended(SuspendedProcesses)
               THEN Exit(1)
               ELSE pc' = "SuspendProcesses" /\ UNCHANGED exitCode
            /\ UNCHANGED <<SuspendedProcesses, calls>>
    /\ UNCHANGED <<static, lists, retval, exists, MaxSize, DesiredCapacity,
                   LoadBalancerNames, TargetGroupARNs, inst, updated, att,
                   locals, absentSeen>>

\* Lines 745-758: suspend the ancillary processes, fetch the group again and
\* enter wait_for_autoscaler_to_have_healthy_desired_instances(autoscaler),
\* which reads the desired capacity once, from the description it is given.
SuspendProcesses ==
    /\ pc = "SuspendProcesses"
    /\ \E ok \in BOOLEAN : suspend_processes(suspend_new_processes, ok)
    /\ pc' = "Refetch"
    /\ UNCHANGED <<static, lists, retval, exists, MaxSize, DesiredCapacity,
                   LoadBalancerNames, TargetGroupARNs, inst, updated, att,
                   exitCode, locals, absentSeen>>

Refetch ==
    /\ pc = "Refetch"
    /\ autoscalerDC' = DesiredCapacity
    /\ desired_capacity' = DesiredCapacity
    /\ pc' = "ConvergeHealthy"
    /\ UNCHANGED exitCode
    /\ UNCHANGED <<static, lists, retval, cloud, autoscaler_old_max_size,
                   autoscaler_old_desired_capacity, instances_to_kill,
                   current_instance_list, new_instances, i, k, downscaled,
                   calls, absentSeen>>

\* --------------------------------------------------------------- the waits
\* Where the script goes when wait_for_autoscaler_to_have_healthy_desired_instances
\* returns: before the loop to the traffic baseline, in the loop to the wait
\* for new instances.
AfterConverge == IF i = 0 THEN "Attach" ELSE "WaitNew"

\* Lines 383-385: one pass of the while loop up to the first test.  The count
\* is fetched now; desired_capacity is the value read when the wait began.
ConvergeHealthy ==
    /\ pc = "ConvergeHealthy"
    /\ IF desired_capacity # get_number_of_autoscaler_healthy_instances
       THEN pc' = "ConvergeHealthy"
       ELSE pc' = "ConvergeScaling"
    /\ UNCHANGED exitCode
    /\ UNCHANGED <<static, lists, retval, cloud, locals, calls, absentSeen>>

\* Mutant: the group is never taken to be scaling.
check_if_autoscaler_is_scaling_never == FALSE

\* check_if_autoscaler_is_scaling, on a description fetched by itself.
check_if_autoscaler_is_scaling ==
    get_number_of_autoscaler_healthy_instances # DesiredCapacity

\* Mutant: the wait sleeps and polls again after a lookup that failed.
LookupFailureIsPolledPast == FALSE

\* A describe call made by a wait failed or found nothing: exit(1) at line
\* 330, or the exception of lines 130-132 and 186-188 that nothing catches.
LookupFailureEndsRun == TRUE

\* The failed lookup of source name (of the group when name is ""), kept in
\* the log of the run, and what follows it.
LookupFailed(name) ==
    /\ calls' = Append(calls, Call("describe", 0, name, 0, {}, FALSE))
    /\ IF LookupFailureEndsRun THEN Exit(1) ELSE UNCHANGED <<pc, exitCode>>

\* Lines 386-392: the second test of the pass; on True the loop sleeps and
\* starts over.
ConvergeScaling ==
    /\ pc = "ConvergeScaling"
    /\ \E readOk \in BOOLEAN :
          IF ~readOk
          THEN LookupFailed("") /\ UNCHANGED k
          ELSE /\ UNCHANGED <<exitCode, calls>>
               /\ IF check_if_autoscaler_is_scaling
                  THEN pc' = "ConvergeHealthy" /\ UNCHANGED k
                  ELSE pc' = AfterConverge /\ k' = 1
    /\ UNCHANGED <<static, lists, retval, cloud, autoscaler_old_max_size,
                   autoscaler_old_desired_capacity, autoscalerDC, desired_capacity,
                   instances_to_kill, current_instance_list, new_instances, i,
                   downscaled, absentSeen>>

\* The ids a classic load balancer reports InService
\* (flatten_instance_health_array_from_loadbalancer_only_healthy).
flatten_instance_health_array_from_loadbalancer_only_healthy(src) ==
    {id \in Ids : att[src][id] = "in"}

\* The ids a target group reports healthy (lines 490-493).
TargetGroupHealthyIds(src) == {id \in Ids : att[src][id] = "in"}

\* The number of healthy members of the group found in instance_health_flat
\* (lines 670-676 and 500-506).
Successes(as_instances, instance_health_flat) ==
    Cardinality({j \in 1..Len(as_instances) : as_instances[j] \in instance_health_flat})

\* Mutant: the members the load balancer has in service are counted, whoever
\* they are.
LoadbalancerAttachmentCompleteByCount(src) ==
    DesiredCapacity =
        Cardinality(flatten_instance_health_array_from_loadbalancer_only_healthy(src))

\* The test that ends wait_for_complete_loadbalancer_autoscaler_attachment
\* (lines 678-681), on one poll.
LoadbalancerAttachmentComplete(src) ==
    LET as_instances == get_autoscaler_healthy_instances
        successes == Successes(as_instances,
                         flatten_instance_health_array_from_loadbalancer_only_healthy(src))
    IN /\ successes >= Len(as_instances)
       /\ DesiredCapacity = successes

\* Mutant: the desired capacity is not looked at.
TargetgroupAttachmentCompleteAnyDesired(src) ==
    LET as_instances == get_autoscaler_healthy_instances
    IN Successes(as_instances, TargetGroupHealthyIds(src)) >= Len(as_instances)

\* The test that ends wait_for_complete_targetgroup_autoscaler_attachment
\* (lines 508-511), on one poll.
TargetgroupAttachmentComplete(src) ==
    LET as_instances == get_autoscaler_healthy_instances
        successes == Successes(as_instances, TargetGroupHealthyIds(src))
    IN /\ successes >= Len(as_instances)
       /\ DesiredCapacity = successes

\* Mutant: --force leaves out the attachment waits of the loop too.
AttachWantedUnlessForce == ~options.force

\* The attachment waits are run before the loop unless --force (line 761) and
\* in the loop unless --skip-elb-health-check (line 846).
AttachWanted == IF i = 0 THEN ~options.force ELSE ~options.skip

AfterAttach == IF i = 0 THEN "Plan" ELSE "UpCheck"

\* The return of the attachment wait of a source, as the log of the run keeps
\* it: val is the pass of the loop the wait was made in, 0 before the loop.
EndedAttachmentWait(src) == Call("attached", 0, src, i, {}, TRUE)

\* Lines 761-774 and 846-859: one poll of the attachment wait of source k, or
\* the step past the waits.
Attach ==
    /\ pc = "Attach"
    /\ IF ~AttachWanted \/ k > Len(Sources)
       THEN /\ pc' = AfterAttach
            /\ UNCHANGED <<k, exitCode, calls>>
       ELSE /\ UNCHANGED <<pc, exitCode>>
            /\ LET src == Sources[k]
                   complete == IF IsLB(src)
                               THEN LoadbalancerAttachmentComplete(src)
                               ELSE TargetgroupAttachmentComplete(src)
               IN IF complete
                  THEN /\ k' = k + 1
                       /\ calls' = Append(calls, EndedAttachmentWait(src))
                  ELSE UNCHANGED <<k, calls>>
    /\ UNCHANGED <<static, lists, retval, cloud, autoscaler_old_max_size,
                   autoscaler_old_desired_capacity, autoscalerDC, desired_capacity,
                   instances_to_kill, current_instance_list, new_instances, i,
                   downscaled, absentSeen>>

\* ------------------------------------------------------ planning and loop
\* Mutant: no member is found to skip.
get_instances_to_skip_none(instances) == <<>>

\* get_instances_to_skip: the members whose configuration name is the group's.
get_instances_to_skip(instances) ==
    SelectSeq(instances, LAMBDA id : id \in updated)

\* Mutant: the two lists are taken one for the other.
find_aws_instances_in_second_list_but_not_in_first(array_one, array_two) ==
    SelectSeq(array_two, LAMBDA x : ~ \E j \in 1..Len(array_one) : array_one[j] = x)

\* Mutant: the first list is handed back whole.
find_aws_instances_in_first_list(array_one, array_two) == array_one

find_aws_instances_in_first_list_but_not_in_second(array_one, array_two) ==
    SelectSeq(array_one, LAMBDA x : ~ \E j \in 1..Len(array_two) : array_two[j] = x)

\* instances_to_kill.remove(instance) for every instance to skip (lines 788-790).
RemoveEach(list, toRemove) ==
    SelectSeq(list, LAMBDA x : x \notin Range(toRemove))

\* Lines 781-793: the last fetch before the loop, the list of instances to
\* kill and the first tally of current instances.
Plan ==
    /\ pc = "Plan"
    /\ autoscalerDC' = DesiredCapacity
    /\ LET healthy == get_autoscaler_healthy_instances
           instances_to_skip ==
               IF options.checkifinstancesneedtobeterminated
               THEN get_instances_to_skip(healthy) ELSE <<>>
       IN /\ instances_to_kill' = RemoveEach(healthy, instances_to_skip)
          /\ current_instance_list' = healthy
    /\ pc' = "Bump"
    /\ UNCHANGED exitCode
    /\ UNCHANGED <<static, lists, retval, cloud, autoscaler_old_max_size,
                   autoscaler_old_desired_capacity, desired_capacity,
                   new_instances, i, k, downscaled, calls, absentSeen>>

\* Lines 813-817: one more member is asked for when there is something to kill.
\* Mutant: the capacity is raised whether or not there is something to kill.
NeedsBumpAlways(kill) == TRUE

NeedsBump(kill) == Len(kill) > 0

\* Mutant: one more member is asked for per instance to kill.
RaisedCapacityPerInstance == autoscalerDC + Len(instances_to_kill)

\* Line 815: autoscaler['DesiredCapacity'] + 1, of the description fetched at
\* line 780.
RaisedCapacity == autoscalerDC + 1

Bump ==
    /\ pc = "Bump"
    /\ IF NeedsBump(instances_to_kill)
       THEN \E ok \in BOOLEAN :
               /\ set_desired_capacity(RaisedCapacity, ok)
               /\ IF ok THEN pc' = "LoopHead" /\ UNCHANGED exitCode
                        ELSE Exit(1)
       ELSE /\ pc' = "LoopHead"
            /\ UNCHANGED <<DesiredCapacity, calls, exitCode>>
    /\ downscaled' = FALSE
    /\ UNCHANGED <<static, lists, retval, exists, MaxSize, SuspendedProcesses,
                   LoadBalancerNames, TargetGroupARNs, inst, updated, att,
                   autoscaler_old_max_size, autoscaler_old_desired_capacity,
                   autoscalerDC, desired_capacity, instances_to_kill,
                   current_instance_list, new_instances, i, k, absentSeen>>

\* Line 820: the for statement takes the next instance to kill, or ends.
LoopHead ==
    /\ pc = "LoopHead"
    /\ IF i < Len(instances_to_kill)
       THEN i' = i + 1 /\ pc' = "LoopEnter" /\ UNCHANGED k
       ELSE pc' = "DrainVerify" /\ k' = 1 /\ UNCHANGED i
    /\ UNCHANGED <<static, lists, retval, cloud, exitCode, autoscaler_old_max_size,
                   autoscaler_old_desired_capacity, autoscalerDC, desired_capacity,
                   instances_to_kill, current_instance_list, new_instances,
                   downscaled, calls, absentSeen>>

\* Lines 827-831: describe the instance to kill, then enter
\* wait_for_autoscaler_to_have_healthy_desired_instances by name, which fetches
\* the group once and reads its desired capacity.
LoopEnter ==
    /\ pc = "LoopEnter"
    /\ desired_capacity' = DesiredCapacity
    /\ pc' = "ConvergeHealthy"
    /\ UNCHANGED exitCode
    /\ UNCHANGED <<static, lists, retval, cloud, autoscaler_old_max_size,
                   autoscaler_old_desired_capacity, autoscalerDC,
                   instances_to_kill, current_instance_list, new_instances, i, k,
                   downscaled, calls, absentSeen>>

\* Mutant: the wait for new instances ends on its first poll.
NoNewInstancesNever(found) == FALSE

\* Mutant: the wait for new instances ends on no poll.
NoNewInstancesAlways(found) == TRUE

\* The test of line 838: there are no new instances yet.
NoNewInstances(found) == Len(found) = 0

\* The poll that ended the wait for new instances, as the log of the run keeps
\* it: val is the number of members the group reported Healthy whose id is
\* not in the tally current_instance_list, ok says that there was one.
EndedWaitNew ==
    LET appeared == {id \in Range(Instances) :
                        /\ HealthStatus(id) = "Healthy"
                        /\ id \notin Range(current_instance_list)}
    IN Call("new_instances", 0, "", Cardinality(appeared), {}, appeared # {})

\* Lines 834-843: one poll of the wait for new instances.
WaitNew ==
    /\ pc = "WaitNew"
    /\ UNCHANGED exitCode
    /\ LET new_current_instance_list == get_autoscaler_healthy_instances
           found == find_aws_instances_in_first_list_but_not_in_second(
                        new_current_instance_list, current_instance_list)
       IN /\ new_instances' = found
          /\ IF NoNewInstances(found)
             THEN UNCHANGED <<pc, k, calls>>
             ELSE /\ pc' = "Attach" /\ k' = 1
                  /\ calls' = Append(calls, EndedWaitNew)
    /\ UNCHANGED <<static, lists, retval, cloud, autoscaler_old_max_size,
                   autoscaler_old_desired_capacity, autoscalerDC, desired_capacity,
                   instances_to_kill, current_instance_list, i, downscaled,
                   absentSeen>>

\* The result of one batch of the external up check (lines 865-890): False only
\* when some invocation returned non-zero; an exception inside the try block is
\* logged and leaves succeeded_health_up_check as it was.
UpCheckOutcomes == {"zero", "nonzero", "raised"}

\* Mutant: an invocation that could not be made fails the batch too.
succeeded_health_up_check_strict(outcome) ==
    \A j \in DOMAIN outcome : outcome[j] = "zero"

succeeded_health_up_check(outcome) ==
    \A j \in DOMAIN outcome : outcome[j] # "nonzero"

\* retval after a batch: what the last invocation that was made returned.
RetvalAfter(outcome) ==
    LET made == {j \in DOMAIN outcome : outcome[j] # "raised"}
    IN IF made = {} THEN retval
       ELSE LET last == CHOOSE j \in made : \A n \in made : n <= j
            IN IF outcome[last] = "zero" THEN 0 ELSE 1

\* The batch that ended the wait, as the log of the run keeps it: val is the
\* number of new instances whose command could not be invoked, ok says that
\* the command was invoked for every new instance and returned 0.
PassedUpCheck(outcome) ==
    Call("up_check", 0, "",
         Cardinality({j \in DOMAIN outcome : outcome[j] = "raised"}), {},
         \A j \in DOMAIN outcome : outcome[j] = "zero")

\* Lines 862-895: one batch of the external up check, or the step past it.
UpCheck ==
    /\ pc = "UpCheck"
    /\ IF ~options.checkifnewserverisupcommand
       THEN pc' = "Deregister" /\ k' = 1 /\ UNCHANGED <<retval, calls>>
       ELSE \E outcome \in [1..Len(new_instances) -> UpCheckOutcomes] :
               /\ retval' = RetvalAfter(outcome)
               /\ IF succeeded_health_up_check(outcome)
                  THEN /\ pc' = "Deregister" /\ k' = 1
                       /\ calls' = Append(calls, PassedUpCheck(outcome))
                  ELSE UNCHANGED <<pc, k, calls>>
    /\ UNCHANGED <<static, lists, cloud, exitCode, autoscaler_old_max_size,
                   autoscaler_old_desired_capacity, autoscalerDC, desired_capacity,
                   instances_to_kill, current_instance_list, new_instances, i,
                   downscaled, absentSeen>>

\* ------------------------------------------------- deregister and terminate
\* The ids a traffic source lists, whatever their state
\* (get_instance_ids_of_load_balancer, get_instance_ids_of_target_group).
\* Mutant: only the instances in service are listed.
get_instance_ids_of_load_balancer_in_service(src) == {id \in Ids : att[src][id] = "in"}

get_instance_ids_of_load_balancer(src) == {id \in Ids : att[src][id] # "absent"}
get_instance_ids_of_target_group(src) == {id \in Ids : att[src][id] # "absent"}

InstanceIdsOf(src) ==
    IF IsLB(src) THEN get_instance_ids_of_load_balancer(src)
    ELSE get_instance_ids_of_target_group(src)

\* deregister_instance_from_load_balancer / deregister_instance_from_target_group
\* as the control plane takes them: the instance starts draining.
Deregistered(src, id, ok) ==
    IF ok /\ att[src][id] \in {"in", "out"}
    THEN [att EXCEPT ![src][id] = "draining"]
    ELSE att

\* Mutant: the instance taken out of service is the newest one of the group.
InstanceToKillNewest == new_instances[1]

\* Mutant: every pass of the loop works on the first instance to kill.
InstanceToKillFirst == instances_to_kill[1]

\* Line 820: instance, the instance to kill of this pass of the loop.
InstanceToKill == instances_to_kill[i]

\* Lines 899-909: the request for source k.  A load balancer's answer other
\* than 200 is logged and the loop goes on; a target group's answer other than
\* 200 reaches a log line that names loadbalancer_name, which is bound nowhere
\* in deregister_instance_from_target_group: the NameError ends the process.
Deregister ==
    /\ pc = "Deregister"
    /\ IF k > Len(Sources)
       THEN /\ pc' = "WaitRemoved"
            /\ k' = 1
            /\ UNCHANGED <<att, calls, exitCode>>
       ELSE LET src == Sources[k]
                id == InstanceToKill
            IN \E ok \in BOOLEAN :
                  /\ calls' = Append(calls, Call("deregister", id, src, 0, {}, ok))
                  /\ att' = Deregistered(src, id, ok)
                  /\ IF ok \/ IsLB(src)
                     THEN k' = k + 1 /\ UNCHANGED <<pc, exitCode>>
                     ELSE Exit(1) /\ UNCHANGED k
    /\ UNCHANGED <<static, lists, retval, exists, MaxSize, DesiredCapacity, SuspendedProcesses,
                   LoadBalancerNames, TargetGroupARNs, inst, updated,
                   autoscaler_old_max_size, autoscaler_old_desired_capacity,
                   autoscalerDC, desired_capacity, instances_to_kill,
                   current_instance_list, new_instances, i, downscaled, absentSeen>>

\* Mutant: the removal wait takes the instance for removed at once.
StillListedNever(id, instance_ids) == FALSE

\* The test of lines 918 and 930: the instance is still listed by the source.
StillListed(id, instance_ids) == id \in instance_ids

\* Lines 911-935: one poll of the removal wait of source k, or the step past
\* the waits.
WaitRemoved ==
    /\ pc = "WaitRemoved"
    /\ IF k > Len(Sources)
       THEN /\ pc' = "BeforeHook"
            /\ UNCHANGED <<k, exitCode, calls, absentSeen>>
       ELSE \E readOk \in BOOLEAN :
               IF ~readOk
               THEN LookupFailed(Sources[k]) /\ UNCHANGED <<k, absentSeen>>
               ELSE /\ UNCHANGED <<pc, exitCode, calls>>
                    /\ LET src == Sources[k]
                           id == InstanceToKill
                       IN IF StillListed(id, InstanceIdsOf(src))
                          THEN UNCHANGED <<k, absentSeen>>
                          ELSE /\ k' = k + 1
                               /\ absentSeen' = absentSeen \cup
                                      (IF id \in InstanceIdsOf(src) THEN {}
                                       ELSE {<<src, id>>})
    /\ UNCHANGED <<static, lists, retval, cloud, autoscaler_old_max_size,
                   autoscaler_old_desired_capacity, autoscalerDC, desired_capacity,
                   instances_to_kill, current_instance_list, new_instances, i,
                   downscaled>>

\* What call(tmpcommand, shell=True) returns: 0, or something else.
ReturnValues == {0, 1}

\* Mutant: a command that returns something else than 0 halts the deployment.
ServerDownCommandHaltsOnFailure(value) == value # 0

\* Lines 953-954 and 991-992: a return value other than 0 is logged, and that
\* is all.
ServerDownCommandHalts(value) == FALSE

\* Lines 938-959: the command run before the server goes down; its return
\* value is logged when it is not 0.  Then the extra wait.
BeforeHook ==
    /\ pc = "BeforeHook"
    /\ IF options.runbeforeserverdowncommand
       THEN \E value \in ReturnValues :
               /\ retval' = value
               /\ IF ServerDownCommandHalts(value)
                  THEN Exit(1)
                  ELSE pc' = "Refresh" /\ UNCHANGED exitCode
       ELSE /\ pc' = "Refresh"
            /\ UNCHANGED <<retval, exitCode>>
    /\ UNCHANGED <<static, lists, cloud, locals, calls, absentSeen>>

\* Lines 962-963: the tally the next iteration compares with.
Refresh ==
    /\ pc = "Refresh"
    /\ current_instance_list' = get_autoscaler_healthy_instances
    /\ pc' = "Terminate"
    /\ UNCHANGED exitCode
    /\ UNCHANGED <<static, lists, retval, cloud, autoscaler_old_max_size,
                   autoscaler_old_desired_capacity, autoscalerDC, desired_capacity,
                   instances_to_kill, new_instances, i, k, downscaled,
                   calls, absentSeen>>

\* Mutant: the first pass of the loop is taken for the last.
IsLastKillFirst(idx, kill) == idx = 1

\* Mutant: no pass of the loop is taken for the last.
IsLastKillNever(idx, kill) == FALSE

\* The test of line 967: this is the last pass of the loop.
IsLastKill(idx, kill) == idx = Len(kill)

\* terminate_instance_in_auto_scaling_group: the request, and what the control
\* plane does with it when it accepts it.
terminate_instance_in_auto_scaling_group(instance_id, decrement_capacity, ok) ==
    /\ calls' = Append(calls, [op |-> "terminate", id |-> instance_id, src |-> "",
                               val |-> 0, procs |-> {},
                               dec |-> decrement_capacity, ok |-> ok])
    /\ inst' = IF ok /\ inst[instance_id] \in {"pending", "healthy"}
               THEN [inst EXCEPT ![instance_id] = "terminating"] ELSE inst
    /\ DesiredCapacity' = IF ok /\ decrement_capacity
                          THEN DesiredCapacity - 1 ELSE DesiredCapacity

\* Lines 965-972.
Terminate ==
    /\ pc = "Terminate"
    /\ LET last == IsLastKill(i, instances_to_kill)
       IN \E ok \in BOOLEAN :
             /\ terminate_instance_in_auto_scaling_group(InstanceToKill, last, ok)
             /\ IF ok
                THEN /\ downscaled' = (downscaled \/ last)
                     /\ pc' = "AfterHook"
                     /\ UNCHANGED exitCode
                ELSE /\ Exit(1)
                     /\ UNCHANGED downscaled
    /\ UNCHANGED <<static, lists, retval, exists, MaxSize, SuspendedProcesses,
                   LoadBalancerNames, TargetGroupARNs, updated, att,
                   autoscaler_old_max_size, autoscaler_old_desired_capacity,
                   autoscalerDC, desired_capacity, instances_to_kill,
                   current_instance_list, new_instances, i, k, absentSeen>>

\* Lines 975-992: the command run after the server went down.
AfterHook ==
    /\ pc = "AfterHook"
    /\ IF options.runafterserverdowncommand
       THEN \E value \in ReturnValues :
               /\ retval' = value
               /\ IF ServerDownCommandHalts(value)
                  THEN Exit(1)
                  ELSE pc' = "LoopHead" /\ UNCHANGED exitCode
       ELSE /\ pc' = "LoopHead"
            /\ UNCHANGED <<retval, exitCode>>
    /\ UNCHANGED <<static, lists, cloud, locals, calls, absentSeen>>

\* ----------------------------------------------------------- restoration
\* The test that ends wait_for_instances_to_detach_from_loadbalancer and
\* wait_for_instances_to_detach_from_target_group (failures == 0), on one poll.
Detached(instance_ids, listed) ==
    Cardinality({j \in 1..Len(instance_ids) : instance_ids[j] \in listed}) = 0

\* Mutant: the detachment waits are left out.
DetachmentWaitWantedNever == FALSE

\* The test of line 997.
DetachmentWaitWanted == ~options.force

\* Lines 994-1009: unless --force, one poll of the detachment wait of source
\* k, or the step past the waits.
DrainVerify ==
    /\ pc = "DrainVerify"
    /\ IF ~DetachmentWaitWanted \/ k > Len(Sources)
       THEN /\ pc' = "RestoreCapacity"
            /\ UNCHANGED <<k, exitCode, absentSeen>>
       ELSE /\ UNCHANGED <<pc, exitCode>>
            /\ LET src == Sources[k]
               IN /\ k' = IF Detached(instances_to_kill, InstanceIdsOf(src))
                          THEN k + 1 ELSE k
                  /\ absentSeen' = absentSeen \cup
                         (IF \A id \in Range(instances_to_kill) :
                                 att[src][id] = "absent"
                          THEN {<<src, 0>>} ELSE {})
    /\ UNCHANGED <<static, lists, retval, cloud, autoscaler_old_max_size,
                   autoscaler_old_desired_capacity, autoscalerDC, desired_capacity,
                   instances_to_kill, current_instance_list, new_instances, i,
                   downscaled, calls>>

\* Lines 1011-1014.
RestoreCapacity ==
    /\ pc = "RestoreCapacity"
    /\ IF downscaled = FALSE
       THEN \E ok \in BOOLEAN :
               /\ set_desired_capacity(autoscaler_old_desired_capacity, ok)
               /\ IF ok THEN pc' = "ResumeProcesses" /\ UNCHANGED exitCode
                        ELSE Exit(1)
       ELSE /\ pc' = "ResumeProcesses"
            /\ UNCHANGED <<DesiredCapacity, calls, exitCode>>
    /\ UNCHANGED <<static, lists, retval, exists, MaxSize, SuspendedProcesses,
                   LoadBalancerNames, TargetGroupARNs, inst, updated, att,
                   locals, absentSeen>>

\* Mutant: the ancillary set is resumed whatever the mode.
ResumeRequestIgnoringForce(ok) == resume_processes(suspend_new_processes, ok)

\* Lines 1016-1022: the request made, by mode.
ResumeRequest(ok) ==
    IF options.force
    THEN resume_all_processes(ok)
    ELSE resume_processes(suspend_new_processes, ok)

ResumeProcesses ==
    /\ pc = "ResumeProcesses"
    /\ \E ok \in BOOLEAN : ResumeRequest(ok)
    /\ pc' = "RestoreHeadroom"
    /\ UNCHANGED <<static, lists, retval, exists, MaxSize, DesiredCapacity,
                   LoadBalancerNames, TargetGroupARNs, inst, updated, att,
                   exitCode, locals, absentSeen>>

\* Mutant: the saved max size is compared with the group's present one.
NeedsShrinkAgainstCurrent == autoscaler_old_max_size = MaxSize

\* The test of line 1026: the max size was raised and has to come down.
NeedsShrink == autoscaler_old_max_size = autoscaler_old_desired_capacity

\* Lines 1024-1037.
RestoreHeadroom ==
    /\ pc = "RestoreHeadroom"
    /\ IF NeedsShrink
       THEN \E ok \in BOOLEAN :
               /\ update_auto_scaling_group_max_size(autoscaler_old_max_size, ok)
               /\ Exit(IF ok THEN 0 ELSE 1)
       ELSE /\ Exit(0)
            /\ UNCHANGED <<MaxSize, calls>>
    /\ UNCHANGED <<static, lists, retval, exists, DesiredCapacity, SuspendedProcesses,
                   LoadBalancerNames, TargetGroupARNs, inst, updated, att,
                   locals, absentSeen>>

\* ------------------------------------------------------ the control plane
\* What the autoscaling service and the traffic sources do by themselves while
\* the script runs.
Alive == {id \in Ids : inst[id] \in {"pending", "healthy"}}

\* The group launches an instance while it has fewer than desired.
EnvLaunch ==
    /\ Running
    /\ Cardinality(Alive) < DesiredCapacity
    /\ "Launch" \notin SuspendedProcesses
    /\ \E id \in Ids :
          /\ inst[id] = "none"
          /\ \A other \in Ids : inst[other] = "none" => id <= other
          /\ inst' = [inst EXCEPT ![id] = "pending"]
    /\ UNCHANGED <<static, lists, retval, exists, MaxSize, DesiredCapacity, SuspendedProcesses,
                   LoadBalancerNames, TargetGroupARNs, updated, att, pc, exitCode,
                   locals, calls, absentSeen>>

\* A launched instance passes its health check; the group registers it with
\* its traffic sources, where it is not in service yet.
EnvHealthy ==
    /\ Running
    /\ \E id \in Ids :
          /\ inst[id] = "pending"
          /\ inst' = [inst EXCEPT ![id] = "healthy"]
          /\ att' = [src \in DOMAIN att |->
                       IF src \in LoadBalancerNames \cup TargetGroupARNs
                          /\ "AddToLoadBalancer" \notin SuspendedProcesses
                       THEN [att[src] EXCEPT ![id] = "out"]
                       ELSE att[src]]
    /\ UNCHANGED <<static, lists, retval, exists, MaxSize, DesiredCapacity, SuspendedProcesses,
                   LoadBalancerNames, TargetGroupARNs, updated, pc, exitCode,
                   locals, calls, absentSeen>>

\* A registered instance passes the health check of a traffic source.
EnvInService ==
    /\ Running
    /\ \E src \in DOMAIN att, id \in Ids :
          /\ att[src][id] = "out"
          /\ att' = [att EXCEPT ![src][id] = "in"]
    /\ UNCHANGED <<static, lists, retval, exists, MaxSize, DesiredCapacity, SuspendedProcesses,
                   LoadBalancerNames, TargetGroupARNs, inst, updated, pc, exitCode,
                   locals, calls, absentSeen>>

\* Connection draining of a deregistered instance ends.
EnvDrained ==
    /\ Running
    /\ \E src \in DOMAIN att, id \in Ids :
          /\ att[src][id] = "draining"
          /\ att' = [att EXCEPT ![src][id] = "absent"]
    /\ UNCHANGED <<static, lists, retval, exists, MaxSize, DesiredCapacity, SuspendedProcesses,
                   LoadBalancerNames, TargetGroupARNs, inst, updated, pc, exitCode,
                   locals, calls, absentSeen>>

\* An instance whose termination was requested leaves the group and its
\* traffic sources.
EnvRemove ==
    /\ Running
    /\ \E id \in Ids :
          /\ inst[id] = "terminating"
          /\ inst' = [inst EXCEPT ![id] = "gone"]
          /\ att' = [src \in DOMAIN att |-> [att[src] EXCEPT ![id] = "absent"]]
    /\ UNCHANGED <<static, lists, retval, exists, MaxSize, DesiredCapacity, SuspendedProcesses,
                   LoadBalancerNames, TargetGroupARNs, updated, pc, exitCode,
                   locals, calls, absentSeen>>

\* ------------------------------------------------------------ specification
Next ==
    \/ Validate
    \/ ExpandHeadroom
    \/ ProcessState
    \/ SuspendProcesses
    \/ Refetch
    \/ ConvergeHealthy
    \/ ConvergeScaling
    \/ Attach
    \/ Plan
    \/ Bump
    \/ LoopHead
    \/ LoopEnter
    \/ WaitNew
    \/ UpCheck
    \/ Deregister
    \/ WaitRemoved
    \/ BeforeHook
    \/ Refresh
    \/ Terminate
    \/ AfterHook
    \/ DrainVerify
    \/ RestoreCapacity
    \/ ResumeProcesses
    \/ RestoreHeadroom
    \/ EnvLaunch
    \/ EnvHealthy
    \/ EnvInService
    \/ EnvDrained
    \/ EnvRemove

Spec == Init /\ [][Next]_vars

\* ------------------------------------------------ the run that is not failed
\* The run in a control plane that answers: every request gets a 200 and every
\* lookup an answer.
Answered ==
    /\ Len(calls') > Len(calls) =>
          (calls'[Len(calls')].ok \/ calls'[Len(calls')].op = "up_check")
    /\ ~(pc = "Validate" /\ exists /\ pc' = "Done")

\* The steps of the script, each with its requests and lookups answered: it is
\* one thread that sleeps only inside its waits.
AnsweredScript ==
    \/ Validate /\ Answered
    \/ ExpandHeadroom /\ Answered
    \/ ProcessState /\ Answered
    \/ SuspendProcesses /\ Answered
    \/ Refetch /\ Answered
    \/ ConvergeHealthy /\ Answered
    \/ ConvergeScaling /\ Answered
    \/ Attach /\ Answered
    \/ Plan /\ Answered
    \/ Bump /\ Answered
    \/ LoopHead /\ Answered
    \/ LoopEnter /\ Answered
    \/ WaitNew /\ Answered
    \/ UpCheck /\ Answered
    \/ Deregister /\ Answered
    \/ WaitRemoved /\ Answered
    \/ BeforeHook /\ Answered
    \/ Refresh /\ Answered
    \/ Terminate /\ Answered
    \/ AfterHook /\ Answered
    \/ DrainVerify /\ Answered
    \/ RestoreCapacity /\ Answered
    \/ ResumeProcesses /\ Answered
    \/ RestoreHeadroom /\ Answered

AnsweredNext ==
    \/ AnsweredScript
    \/ EnvLaunch
    \/ EnvHealthy
    \/ EnvInService
    \/ EnvDrained
    \/ EnvRemove

\* The script keeps running, the up check command sooner or later returns 0
\* for every new instance, and the control plane sooner or later launches,
\* finds healthy, puts in service, drains and removes what it has to.
AnsweredSpec ==
    /\ Init
    /\ [][AnsweredNext]_vars
    /\ WF_vars(AnsweredScript)
    /\ WF_vars(UpCheck /\ pc' = "Deregister")
    /\ WF_vars(EnvLaunch)
    /\ WF_vars(EnvHealthy)
    /\ WF_vars(EnvInService)
    /\ WF_vars(EnvDrained)
    /\ WF_vars(EnvRemove)

\* ------------------------------------------- the functions, called by themselves
\* The wait functions and the list function of the script called by
\* themselves: a wait is fed whatever the describe calls may answer, poll after
\* poll; the list function is handed whatever two lists.

\* The lists of at most n members of S.
BoundedSeq(S, n) == UNION {[1..m -> S] : m \in 0..n}

\* What a group reports of an instance it lists or does not list.
PollStates == {"none", "pending", "healthy", "terminating"}

\* What a traffic source reports of an instance.
SourceStates == {"absent", "out", "in", "draining"}

\* The function that is called: an attachment wait (pc = "Attach"), a
\* detachment wait (pc = "DrainVerify") or the list function (pc = "FindNew"),
\* of a group attached to one load balancer or to one target group.
FunctionInit ==
    /\ options = [force |-> FALSE, skip |-> FALSE,
                  checkifnewserverisupcommand |-> FALSE,
                  runbeforeserverdowncommand |-> FALSE,
                  runafterserverdowncommand |-> FALSE,
                  checkifinstancesneedtobeterminated |-> FALSE]
    /\ exists = TRUE
    /\ pc \in {"Attach", "DrainVerify", "FindNew"}
    /\ \E src \in LBNames \cup TGNames :
          /\ LoadBalancerNames = {src} \cap LBNames
          /\ TargetGroupARNs = {src} \cap TGNames
    /\ MaxSize = MaxPoll + 1
    /\ DesiredCapacity = 0
    /\ SuspendedProcesses = {}
    /\ inst = [id \in Ids |-> "none"]
    /\ updated = {}
    /\ att = [src \in LBNames \cup TGNames |-> [id \in Ids |-> "absent"]]
    /\ exitCode = -1
    /\ autoscaler_old_max_size = MaxPoll + 1
    /\ autoscaler_old_desired_capacity = 0
    /\ autoscalerDC = 0
    /\ desired_capacity = 0
    \* instance_ids of the detachment wait
    /\ instances_to_kill \in
          IF pc = "DrainVerify" THEN BoundedSeq(PollIds, MaxPoll) ELSE {<<>>}
    /\ current_instance_list = <<>>
    /\ new_instances = <<>>
    /\ i = 0
    /\ k = 1
    /\ downscaled = FALSE
    /\ retval = 0
    /\ first_list \in IF pc = "FindNew" THEN BoundedSeq(PollIds, MaxLen) ELSE {<<>>}
    /\ second_list \in IF pc = "FindNew" THEN BoundedSeq(PollIds, MaxLen) ELSE {<<>>}
    /\ output = <<>>
    /\ calls = <<>>
    /\ absentSeen = {}
    /\ start = [MaxSize |-> MaxSize, DesiredCapacity |-> DesiredCapacity,
                SuspendedProcesses |-> SuspendedProcesses]

\* A wait is under way: the next poll is still to be made.
Polling == pc \in {"Attach", "DrainVerify"} /\ k <= Len(Sources)

\* The answer of describe_auto_scaling_groups changes in what it says of an
\* instance.
PollFleet ==
    /\ Polling /\ pc = "Attach"
    /\ \E id \in PollIds, st \in PollStates :
          inst' = [inst EXCEPT ![id] = st]
    /\ UNCHANGED <<static, lists, retval, exists, MaxSize, DesiredCapacity,
                   SuspendedProcesses, LoadBalancerNames, TargetGroupARNs,
                   updated, att, pc, exitCode, locals, calls, absentSeen>>

\* The answer of describe_auto_scaling_groups changes in its desired capacity.
PollDesired ==
    /\ Polling /\ pc = "Attach"
    /\ DesiredCapacity' \in 0..(MaxPoll + 1)
    /\ UNCHANGED <<static, lists, retval, exists, MaxSize,
                   SuspendedProcesses, LoadBalancerNames, TargetGroupARNs,
                   inst, updated, att, pc, exitCode, locals, calls, absentSeen>>

\* The answer of the traffic source changes in what it says of an instance.
PollSource ==
    /\ Polling
    /\ \E src \in LoadBalancerNames \cup TargetGroupARNs, id \in PollIds,
          st \in SourceStates :
          att' = [att EXCEPT ![src][id] = st]
    /\ UNCHANGED <<static, lists, retval, exists, MaxSize, DesiredCapacity,
                   SuspendedProcesses, LoadBalancerNames, TargetGroupARNs,
                   inst, updated, pc, exitCode, locals, calls, absentSeen>>

\* find_aws_instances_in_first_list_but_not_in_second(first_list, second_list)
FindNew ==
    /\ pc = "FindNew"
    /\ output' = find_aws_instances_in_first_list_but_not_in_second(
                     first_list, second_list)
    /\ pc' = "Found"
    /\ UNCHANGED <<static, first_list, second_list, retval, cloud, exitCode,
                   locals, calls, absentSeen>>

FunctionNext ==
    \/ Attach
    \/ DrainVerify
    \/ FindNew
    \/ PollFleet
    \/ PollDesired
    \/ PollSource

FunctionSpec == FunctionInit /\ [][FunctionNext]_vars

\* ------------------------------------------------------------- properties
\* What the log of requests holds.
CallIdx(op) == {j \in 1..Len(calls) : calls[j].op = op}
TermCalls == SelectSeq(calls, LAMBDA c : c.op = "terminate")

\* The loop over instances_to_kill has run to its end.
LoopEnded ==
    \/ pc \in {"DrainVerify", "RestoreCapacity", "ResumeProcesses", "RestoreHeadroom"}
    \/ exitCode = 0

\* The max size was raised at ExpandHeadroom.
MaxIncreased ==
    \E j \in CallIdx("update_max_size") :
        calls[j].ok /\ calls[j].val = start.MaxSize + 1

\* The desired capacity was raised for the replacement.
DesiredIncreased ==
    \E j \in CallIdx("set_desired_capacity") :
        calls[j].ok /\ calls[j].val = start.DesiredCapacity + 1

\* A termination request carrying the decrement flag was made.
DecrementIssued == \E j \in CallIdx("terminate") : calls[j].dec

\* C1: with N >= 1 instances to kill, a termination request carries the
\* decrement flag exactly when it is the Nth request, and a run that reaches
\* the end of the loop has made exactly N termination requests.
C1_DecrementOnLastOnly ==
    LET N == Len(instances_to_kill)
    IN /\ \A j \in 1..Len(TermCalls) : TermCalls[j].dec <=> (j = N)
       /\ Len(TermCalls) <= N
       /\ (LoopEnded /\ N >= 1) =>
             /\ Len(TermCalls) = N
             /\ Cardinality({j \in 1..N : TermCalls[j].dec}) = 1

C1_Witness ==
    /\ exitCode = 0
    /\ Len(instances_to_kill) = 2
    /\ Len(TermCalls) = 2
    /\ TermCalls[2].dec /\ ~TermCalls[1].dec

\* C2: whatever the options, every termination request for an instance was
\* preceded, for each load balancer and target group of the group, by a poll
\* of the removal wait that found the instance absent from it.
C2_TerminateAfterAbsentEverywhere ==
    \A j \in CallIdx("terminate") :
        \A src \in LoadBalancerNames \cup TargetGroupARNs :
            <<src, calls[j].id>> \in absentSeen

C2_Witness ==
    /\ options.force /\ options.skip
    /\ LoadBalancerNames # {} /\ TargetGroupARNs # {}
    /\ Len(TermCalls) = 2

\* C3 (as claimed): when the process has ended, with 0 or with 1, the max
\* size is what it was when the run started.
C3_MaxSizeRestoredOnEveryEnd ==
    pc = "Done" => MaxSize = start.MaxSize

\* C4 (as claimed): a run that ends with 1 after the desired capacity was
\* raised and before the decrementing termination was requested leaves the
\* desired capacity at its starting value.
C4_CapacityCompensatedOnAbort ==
    (pc = "Done" /\ exitCode = 1 /\ DesiredIncreased /\ ~DecrementIssued)
        => DesiredCapacity = start.DesiredCapacity

\* C5: a run that exits 0 after raising the max size leaves the max size at
\* its starting value; a run that exits 0 without having raised it made no
\* max size request at all.
C5_MaxSizeRestoredOnSuccess ==
    exitCode = 0 =>
        IF MaxIncreased
        THEN MaxSize = start.MaxSize
        ELSE CallIdx("update_max_size") = {}

C5_Witness ==
    /\ exitCode = 0
    /\ MaxIncreased
    /\ Len(TermCalls) >= 1
    /\ MaxSize = start.MaxSize

\* C6: a run that exits 0 made, after its last termination request, a resume
\* request: of ScheduledActions, AlarmNotification and AZRebalance exactly
\* without --force, of all processes with it.
C6_ResumeAfterLastTermination ==
    exitCode = 0 =>
        \E j \in 1..Len(calls) :
            /\ \A t \in CallIdx("terminate") : t < j
            /\ IF options.force
               THEN calls[j].op = "resume_all_processes"
               ELSE /\ calls[j].op = "resume_processes"
                    /\ calls[j].procs =
                           {"ScheduledActions", "AlarmNotification", "AZRebalance"}

C6_Witness ==
    /\ exitCode = 0
    /\ options.force
    /\ Len(TermCalls) = 2
    /\ calls[Len(calls)].op = "resume_all_processes"

\* C7 (as claimed): a run that exits 0, every request of which was answered
\* 200, leaves the set of suspended processes as it was when the run started.
C7_SuspendedSetRestored ==
    (exitCode = 0 /\ \A j \in 1..Len(calls) : calls[j].ok)
        => SuspendedProcesses = start.SuspendedProcesses

\* C8: while the list of instances to kill is empty, no termination and no
\* deregistration has been requested, no desired capacity above the starting
\* one has been requested, and the desired capacity is the starting one.
C8_EmptyPlanLeavesCapacity ==
    Len(instances_to_kill) = 0 =>
        /\ CallIdx("terminate") = {}
        /\ CallIdx("deregister") = {}
        /\ \A j \in CallIdx("set_desired_capacity") :
               calls[j].val <= start.DesiredCapacity
        /\ DesiredCapacity = start.DesiredCapacity

C8_Witness ==
    /\ exitCode = 0
    /\ Len(instances_to_kill) = 0
    /\ Len(get_autoscaler_healthy_instances) = 2
    /\ options.checkifinstancesneedtobeterminated
    /\ DesiredCapacity = start.DesiredCapacity

\* C9: a run that exits 0 with N >= 1 instances to kill leaves the desired
\* capacity at its starting value, having requested a desired capacity once
\* (the starting one plus 1) and a decrementing termination once.
C9_CapacityBackOnSuccess ==
    (exitCode = 0 /\ Len(instances_to_kill) >= 1) =>
        /\ DesiredCapacity = start.DesiredCapacity
        /\ Cardinality(CallIdx("set_desired_capacity")) = 1
        /\ \A j \in CallIdx("set_desired_capacity") :
               calls[j].val = start.DesiredCapacity + 1
        /\ Cardinality({j \in CallIdx("terminate") : calls[j].dec}) = 1

C9_Witness ==
    /\ exitCode = 0
    /\ Len(instances_to_kill) = 2
    /\ DesiredCapacity = 2
    /\ start.DesiredCapacity = 2

\* C10: when the name resolves to no group, the first step ends the process
\* with 1 and no request has been made.
C10_UnknownGroupExitsWithoutMutation ==
    ~exists =>
        /\ calls = <<>>
        /\ pc # "Validate" => (pc = "Done" /\ exitCode = 1)

C10_Witness ==
    /\ ~exists
    /\ pc = "Done"
    /\ exitCode = 1

\* C11: in a run without --force whose group has Terminate, Launch,
\* HealthCheck or AddToLoadBalancer suspended when it starts, the script gets
\* no further than the check of the processes, where it ends with 1, and it
\* has requested no suspension, no desired capacity, no deregistration and no
\* termination.
C11_RequiredSuspendedAborts ==
    (~options.force /\ start.SuspendedProcesses \cap required_processes # {}) =>
        /\ \/ pc \in {"Validate", "ExpandHeadroom", "ProcessState"}
           \/ pc = "Done" /\ exitCode = 1
        /\ \A j \in 1..Len(calls) :
               calls[j].op \notin {"suspend_processes", "set_desired_capacity",
                                   "deregister", "terminate"}

\* The check itself ended the run: the group was found and its max size raised.
C11_Witness ==
    /\ ~options.force
    /\ "Launch" \in start.SuspendedProcesses
    /\ MaxIncreased
    /\ pc = "Done" /\ exitCode = 1
    /\ Len(calls) = 1

\* The run ended before the processes were looked at: the group was not found,
\* or the max size could not be raised.
EndedBeforeProcessState ==
    /\ pc = "Done" /\ exitCode = 1
    /\ \/ calls = <<>>
       \/ Len(calls) = 1 /\ calls[1].op = "update_max_size" /\ ~calls[1].ok

\* C12: in a run with --force, whatever processes are suspended when it
\* starts, the check of the required processes ends no run: once past that
\* step the script has requested the resumption of all processes, before any
\* other process request and before the first poll of the baseline wait.
C12_ForceResumesAllBeforeBaseline ==
    (options.force /\ pc \notin {"Validate", "ExpandHeadroom", "ProcessState"}
                   /\ ~EndedBeforeProcessState) =>
        \E j \in CallIdx("resume_all_processes") :
            /\ \A n \in 1..(j - 1) : calls[n].op = "update_max_size"
            /\ j <= 2

C12_Witness ==
    /\ options.force
    /\ "Launch" \in start.SuspendedProcesses
    /\ pc = "ConvergeScaling" /\ i = 0
    /\ \E j \in CallIdx("resume_all_processes") : calls[j].ok

\* The attachment wait of the source being polled returns at this step.
AttachReturns == pc = "Attach" /\ k <= Len(Sources) /\ k' = k + 1

\* The attachment waits have returned; nothing was fed to them since.
AttachReturned == pc = "Attach" /\ k > Len(Sources)

\* The members the group of the poll lists with HealthStatus Healthy.
HealthyMembers == {id \in Range(Instances) : HealthStatus(id) = "Healthy"}

\* C13: whatever is fed to an attachment wait, of a load balancer or of a
\* target group, it does not return on a poll in which a member the group
\* reports Healthy is not listed by the source, or is listed but not in
\* service.
C13_AttachmentWaitsForHealthyMembers ==
    [][AttachReturns => \A id \in HealthyMembers : att[Sources[k]][id] = "in"]_vars

C13_Witness ==
    /\ AttachReturned
    /\ LoadBalancerNames # {}
    /\ Cardinality(HealthyMembers) = 2
    /\ \A id \in HealthyMembers : att["elb"][id] = "in"

\* C14 (as claimed): an attachment wait returns only on a poll in which the
\* number of members the source reports in service is the desired capacity
\* of the group.
C14_InServiceCountIsDesired ==
    [][AttachReturns =>
          Cardinality({id \in Ids : att[Sources[k]][id] = "in"}) = DesiredCapacity]_vars

\* C14 (amended): an attachment wait returns only on a poll in which the
\* number of Healthy members of the group that the source reports in service
\* is the desired capacity of the group.
C14_HealthyInServiceCountIsDesired ==
    [][AttachReturns =>
          Cardinality({id \in HealthyMembers : att[Sources[k]][id] = "in"})
              = DesiredCapacity]_vars

\* The wait of a target group returned on a poll that had, besides the one
\* Healthy member, an instance in service that the group does not list.
C14_Witness ==
    /\ AttachReturned
    /\ TargetGroupARNs # {}
    /\ DesiredCapacity = 1
    /\ Cardinality(HealthyMembers) = 1
    /\ \E id \in Ids : inst[id] = "none" /\ att["tg"][id] = "in"

\* No instance handed to the detachment wait is listed by the source.
NoneListed(src) ==
    \A j \in 1..Len(instances_to_kill) : att[src][instances_to_kill[j]] = "absent"

\* C15: whatever is fed to a detachment wait, of a load balancer or of a
\* target group, a poll of it returns exactly when the source lists none of
\* the ids it was handed, in whatever state the source reports them; and on
\* such a poll the wait can return.
C15_DetachmentWaitsForAbsence ==
    /\ [][(pc = "DrainVerify" /\ k <= Len(Sources) /\ UNCHANGED att)
            => (k' = k + 1 <=> NoneListed(Sources[k]))]_vars
    /\ []((pc = "DrainVerify" /\ k <= Len(Sources) /\ NoneListed(Sources[k]))
            => ENABLED (DrainVerify /\ k' = k + 1))

C15_Witness ==
    /\ pc = "DrainVerify" /\ k > Len(Sources)
    /\ LoadBalancerNames # {}
    /\ Len(instances_to_kill) >= 1
    /\ NoneListed("elb")
    /\ \E id \in PollIds : att["elb"][id] = "draining"

\* C16: a run without --force is at the resumption of the processes, or has
\* exited with 0, only after a poll of the detachment wait of every load
\* balancer and target group of the group found none of the instances to kill
\* listed.
C16_ResumeAfterDetachmentEverywhere ==
    (~options.force /\ (pc \in {"ResumeProcesses", "RestoreHeadroom"} \/ exitCode = 0)) =>
        \A src \in LoadBalancerNames \cup TargetGroupARNs : <<src, 0>> \in absentSeen

C16_Witness ==
    /\ ~options.force
    /\ exitCode = 0
    /\ LoadBalancerNames # {} /\ TargetGroupARNs # {}
    /\ Len(instances_to_kill) = 2
    /\ {<<"elb", 0>>, <<"tg", 0>>} \subseteq absentSeen

\* The places of first_list whose id is nowhere in second_list.
NewPlaces ==
    {j \in 1..Len(first_list) :
        \A n \in 1..Len(second_list) : second_list[n] # first_list[j]}

\* The m-th of these places, in the order of first_list.
NewPlace(m) ==
    CHOOSE j \in NewPlaces : Cardinality({n \in NewPlaces : n < j}) = m - 1

\* C17: the list function, handed current as its first list and previous as
\* its second, returns the members of current whose id is nowhere in previous,
\* each as often and in the order it is in current; the result is empty
\* exactly when every id of current is an id of previous.
C17_NewlyAppearedIsDifferenceInOrder ==
    pc = "Found" =>
        /\ Len(output) = Cardinality(NewPlaces)
        /\ \A m \in 1..Len(output) : output[m] = first_list[NewPlace(m)]
        /\ (output = <<>>) <=> (Range(first_list) \subseteq Range(second_list))

C17_Witness ==
    /\ pc = "Found"
    /\ first_list = <<2, 1, 2>>
    /\ second_list = <<1>>
    /\ output = <<2, 2>>

\* The requests that take an instance to kill out of service.
RetireCalls == CallIdx("deregister") \cup CallIdx("terminate")

\* The passed up checks before place j of the log.
UpChecksBefore(j) == {n \in CallIdx("up_check") : n < j}

\* C18 (as claimed): with an up check command, every deregistration and
\* every termination comes after a batch of the up check in which the command
\* was invoked for every new instance and returned 0 for each: the batch that
\* ended the wait of that pass of the loop.
C18_RetireAfterBatchOfZeroes ==
    options.checkifnewserverisupcommand =>
        \A j \in RetireCalls :
            /\ UpChecksBefore(j) # {}
            /\ LET last == CHOOSE n \in UpChecksBefore(j) :
                               \A m \in UpChecksBefore(j) : m <= n
               IN calls[last].ok

\* C19 (as claimed): a batch of the up check in which the command could not
\* be invoked for some new instance does not end the wait.
C19_FailedInvocationFailsBatch ==
    \A n \in CallIdx("up_check") : calls[n].val = 0

C21_FailedBeforeCommandHalts ==
    [][(options.runbeforeserverdowncommand /\ pc = "Terminate" /\ retval # 0)
          => UNCHANGED calls]_vars

\* The last thing the run did was a lookup, made by a wait, that failed.
FailedLookupLast == Len(calls) > 0 /\ calls[Len(calls)].op = "describe"

\* C22 (as claimed): a lookup made by a wait after the first validation that
\* fails or finds nothing does not end the run.
C22_FailedLookupDoesNotEndRun ==
    pc = "Done" => ~FailedLookupLast

\* C22 (amended): a lookup, of the group or of a load balancer or target
\* group, made by a wait after the first validation that fails or finds
\* nothing ends the run with 1 there and then: nothing is polled or requested
\* after it.
C22_FailedLookupEndsRun ==
    \A j \in CallIdx("describe") :
        /\ j = Len(calls)
        /\ pc = "Done" /\ exitCode = 1

\* The removal wait of the second instance to kill could not look up the
\* target group.
C22_Witness ==
    /\ FailedLookupLast
    /\ calls[Len(calls)].src = "tg"
    /\ i = 2
    /\ Len(TermCalls) = 1
    /\ pc = "Done" /\ exitCode = 1

\* The members that are healthy and whose termination has not been requested.
HealthyKept ==
    {id \in Ids : /\ inst[id] = "healthy"
                  /\ \A j \in CallIdx("terminate") : calls[j].id # id}

\* The wait for the healthy desired instances that precedes the loop has
\* returned.
BaselineConverged ==
    \/ pc \in {"Attach", "Plan", "Bump", "LoopHead", "LoopEnter", "WaitNew",
               "UpCheck", "Deregister", "WaitRemoved", "BeforeHook", "Refresh",
               "Terminate", "AfterHook", "DrainVerify", "RestoreCapacity",
               "ResumeProcesses", "RestoreHeadroom"}
    \/ pc \in {"ConvergeHealthy", "ConvergeScaling"} /\ i > 0
    \/ pc = "Done" /\ CallIdx("set_desired_capacity") # {}

\* C23 (as claimed): at every moment of a run, the healthy members whose
\* termination has not been requested are at least as many as the desired
\* capacity the run started with.
C23_CapacityFloorAlways ==
    Cardinality(HealthyKept) >= start.DesiredCapacity

\* C23 (amended): from the moment the wait for the healthy desired instances
\* that precedes the loop has returned, the healthy members whose termination
\* has not been requested are at least as many as the desired capacity the run
\* started with.
C23_CapacityFloorOnceConverged ==
    BaselineConverged => Cardinality(HealthyKept) >= start.DesiredCapacity

\* The second of two instances to kill has just been asked to terminate, the
\* first has left the group: two replacements are what is left.
C23_Witness ==
    /\ pc = "AfterHook"
    /\ start.DesiredCapacity = 2
    /\ Len(TermCalls) = 2
    /\ inst[1] = "gone"
    /\ HealthyKept = {3, 4}

\* The polls that ended a wait for new instances before place j of the log,
\* with no termination request between them and j: those of the pass of the
\* loop that place j belongs to.
NewSeenBefore(j) ==
    {n \in CallIdx("new_instances") :
        /\ n < j
        /\ \A t \in CallIdx("terminate") : ~(n < t /\ t < j)}

\* C24: every deregistration and every termination of an instance to kill
\* comes, within its pass of the loop, after a poll in which a member the
\* group reported Healthy had an id that is not in the tally taken before the
\* loop (first pass) or just before the last termination (later passes); the
\* wait for new instances ends on no other poll.
C24_RetireAfterNewInstanceSeen ==
    /\ \A j \in RetireCalls :
           \E n \in NewSeenBefore(j) : calls[n].ok /\ calls[n].val >= 1
    /\ \A n \in CallIdx("new_instances") : calls[n].ok

\* Both instances to kill were terminated, each after its own poll that saw a
\* new instance.
C24_Witness ==
    /\ Len(TermCalls) = 2
    /\ Cardinality(CallIdx("new_instances")) = 2
    /\ \A t \in CallIdx("terminate") : NewSeenBefore(t) # {}
    /\ inst[3] \in {"healthy", "terminating"} /\ inst[4] = "healthy"

\* C25: the list of instances to kill is made once, by the plan, of members
\* the group had when the run started; every deregistration and every
\* termination is of an instance of that list, so an instance that joined the
\* group after the plan is never deregistered or terminated.
C25_OnlyPlannedInstancesRetired ==
    /\ [](/\ Range(instances_to_kill) \subseteq 1..start.DesiredCapacity
          /\ \A j \in RetireCalls : calls[j].id \in Range(instances_to_kill))
    /\ [][pc # "Plan" => UNCHANGED instances_to_kill]_vars

\* The run is over: both replacements are in the group, untouched.
C25_Witness ==
    /\ exitCode = 0
    /\ Len(instances_to_kill) = 2
    /\ LoadBalancerNames # {}
    /\ inst[3] = "healthy" /\ inst[4] = "healthy"
    /\ {calls[j].id : j \in RetireCalls} = {1, 2}

\* The place of an instance in the list of instances to kill.
PlanPlace(id) == CHOOSE m \in 1..Len(instances_to_kill) : instances_to_kill[m] = id

\* C26: the termination requests are of the instances to kill in the order of
\* the list, one each, all of them once the loop has ended; and the
\* deregistrations of the m-th instance to kill come after the termination
\* request of the (m-1)-th and before its own.
C26_OneAtATimeInPlanOrder ==
    LET N == Len(instances_to_kill)
    IN /\ Len(TermCalls) <= N
       /\ \A m \in 1..Len(TermCalls) : TermCalls[m].id = instances_to_kill[m]
       /\ \A m, n \in 1..N : instances_to_kill[m] = instances_to_kill[n] => m = n
       /\ LoopEnded => Len(TermCalls) = N
       /\ \A j \in CallIdx("deregister") :
              /\ calls[j].id \in Range(instances_to_kill)
              /\ Cardinality({t \in CallIdx("terminate") : t < j})
                    = PlanPlace(calls[j].id) - 1

\* The second instance to kill is being deregistered from the second source;
\* the first was terminated before.
C26_Witness ==
    /\ pc = "Deregister" /\ i = 2 /\ k = 2
    /\ Len(Sources) = 2
    /\ Len(TermCalls) = 1 /\ TermCalls[1].id = instances_to_kill[1]
    /\ Cardinality(CallIdx("deregister")) = 3

\* C27: the desired capacity of the group, and every desired capacity the
\* script asks for, is the starting one or the starting one plus 1; the
\* starting one plus 1 is asked for at most once; and a termination request
\* is made only while the desired capacity is the starting one plus 1.
C27_CapacityRaisedByOneOnce ==
    /\ [](/\ DesiredCapacity \in {start.DesiredCapacity, start.DesiredCapacity + 1}
          /\ \A j \in CallIdx("set_desired_capacity") :
                 calls[j].val \in {start.DesiredCapacity, start.DesiredCapacity + 1}
          /\ Cardinality({j \in CallIdx("set_desired_capacity") :
                             calls[j].val = start.DesiredCapacity + 1}) <= 1)
    /\ [][(Len(calls') > Len(calls) /\ calls'[Len(calls')].op = "terminate")
             => DesiredCapacity = start.DesiredCapacity + 1]_vars

\* Two instances were terminated on one raise of the desired capacity.
C27_Witness ==
    /\ start.DesiredCapacity = 2
    /\ Len(TermCalls) = 2
    /\ Cardinality(CallIdx("set_desired_capacity")) = 1
    /\ DesiredIncreased
    /\ DesiredCapacity = 2
    /\ pc = "RestoreCapacity"

\* The step that may raise the max size has been taken.
PastExpandHeadroom ==
    /\ pc \notin {"Validate", "ExpandHeadroom"}
    /\ ~(pc = "Done" /\ calls = <<>>)

\* C28: a max size is asked for only in a run that started with the desired
\* capacity at the max size, and in such a run the first request made, before
\* the desired capacity is raised, asks for the starting max size plus 1; the
\* desired capacity is never above the max size, the max size restored
\* included.
C28_MaxSizeRaisedBeforeCapacity ==
    /\ CallIdx("update_max_size") # {} => start.DesiredCapacity = start.MaxSize
    /\ (start.DesiredCapacity = start.MaxSize /\ PastExpandHeadroom) =>
           /\ Len(calls) >= 1
           /\ calls[1].op = "update_max_size"
           /\ calls[1].val = start.MaxSize + 1
    /\ \A j \in CallIdx("set_desired_capacity") :
           (calls[j].val > start.DesiredCapacity
              /\ start.DesiredCapacity = start.MaxSize) =>
                 \E m \in CallIdx("update_max_size") :
                     m < j /\ calls[m].ok /\ calls[m].val = start.MaxSize + 1
    /\ DesiredCapacity <= MaxSize

\* The run started with desired capacity and max size 2, went through 3 and
\* 3, and ended with both back at 2.
C28_Witness ==
    /\ exitCode = 0
    /\ start.DesiredCapacity = 2 /\ start.MaxSize = 2
    /\ MaxIncreased /\ DesiredIncreased
    /\ Len(TermCalls) = 2
    /\ DesiredCapacity = 2 /\ MaxSize = 2

\* C29: with --check-if-instances-need-to-be-terminated, no member whose
\* configuration name is the group's is ever deregistered or terminated, and
\* the list the plan makes holds every other member the group reports Healthy
\* at that time, and no one else.
C29_UpdatedMembersAreSkipped ==
    /\ [](options.checkifinstancesneedtobeterminated =>
             \A j \in RetireCalls : calls[j].id \notin updated)
    /\ [][(options.checkifinstancesneedtobeterminated /\ pc = "Plan" /\ pc' = "Bump")
             => Range(instances_to_kill') = HealthyMembers \ updated]_vars

\* Of two members the first had the group's configuration: the second alone
\* was replaced.
C29_Witness ==
    /\ options.checkifinstancesneedtobeterminated
    /\ exitCode = 0
    /\ start.DesiredCapacity = 2
    /\ 1 \in updated /\ 2 \notin updated
    /\ instances_to_kill = <<2>>
    /\ Len(TermCalls) = 1 /\ TermCalls[1].id = 2
    /\ inst[1] = "healthy"

\* The attachment waits that returned in pass m of the loop (before the loop
\* when m is 0), before place j of the log.
AttachedBefore(j, m) ==
    {calls[n].src : n \in {a \in CallIdx("attached") : a < j /\ calls[a].val = m}}

\* C30: without --skip-elb-health-check, with --force or without it, every
\* deregistration and every termination of an instance to kill comes after
\* the attachment wait of every load balancer and target group of the group
\* returned in that pass of the loop; with --skip-elb-health-check no
\* attachment wait is made in the loop; --force leaves out the attachment
\* waits before the loop and the detachment waits after it.
C30_InLoopAttachmentWaitFollowsSkipOnly ==
    /\ ~options.skip =>
           \A j \in RetireCalls :
               /\ calls[j].id \in Range(instances_to_kill)
               /\ (LoadBalancerNames \cup TargetGroupARNs)
                      \subseteq AttachedBefore(j, PlanPlace(calls[j].id))
    /\ options.skip => \A n \in CallIdx("attached") : calls[n].val = 0
    /\ options.force =>
           /\ \A n \in CallIdx("attached") : calls[n].val >= 1
           /\ \A src \in LoadBalancerNames \cup TargetGroupARNs :
                  <<src, 0>> \notin absentSeen

\* A run with --force and without --skip-elb-health-check ended: no wait
\* before the loop, the waits of both sources in each of the two passes.
C30_Witness ==
    /\ options.force /\ ~options.skip
    /\ exitCode = 0
    /\ LoadBalancerNames # {} /\ TargetGroupARNs # {}
    /\ Len(TermCalls) = 2
    /\ Cardinality(CallIdx("attached")) = 4
    /\ AttachedBefore(Len(calls), 2) = {"elb", "tg"}

\* The script is in wait_for_autoscaler_to_have_healthy_desired_instances.
WaitingToConverge == pc \in {"ConvergeHealthy", "ConvergeScaling"}

\* C31: the wait for the healthy desired instances, before the loop and in
\* each pass of it, returns only on a poll in which the number of members the
\* group reports Healthy is the desired capacity of the group, which is when
\* the group is not taken to be scaling; on any other poll the script stays
\* in the wait; and while it is in the wait it makes no request, and the max
\* size, the desired capacity and the suspended processes stay as they are.
C31_ConvergenceWaitReturnsOnEquality ==
    [][WaitingToConverge =>
          /\ (pc' \notin {"ConvergeHealthy", "ConvergeScaling", "Done"})
                => Cardinality(HealthyMembers) = DesiredCapacity
          /\ Cardinality(HealthyMembers) # DesiredCapacity
                => pc' \in {"ConvergeHealthy", "ConvergeScaling", "Done"}
          /\ Len(calls') > Len(calls)
                => (calls'[Len(calls')].op = "describe" /\ pc' = "Done")
          /\ UNCHANGED <<MaxSize, DesiredCapacity, SuspendedProcesses>>]_vars

\* The wait of the second pass of the loop has just returned: three Healthy
\* members, the first instance to kill gone, for a desired capacity of 3.
C31_Witness ==
    /\ pc = "WaitNew" /\ i = 2
    /\ new_instances = <<3>>
    /\ DesiredCapacity = 3
    /\ inst[1] = "gone"
    /\ Cardinality(HealthyMembers) = 3

\* The first request of the run, for a bigger max size, was answered other
\* than 200.
ExpandFailed ==
    /\ Len(calls) >= 1
    /\ calls[1].op = "update_max_size"
    /\ ~calls[1].ok

\* C32: when the request for a bigger max size is answered other than 200,
\* the process has ended with 1 on that answer: no second request was made,
\* of whatever kind, and the max size, the desired capacity, the suspended
\* processes and the members of the group are as the run found them.
C32_FailedExpandEndsRun ==
    ExpandFailed =>
        /\ pc = "Done" /\ exitCode = 1
        /\ Len(calls) = 1
        /\ MaxSize = start.MaxSize
        /\ DesiredCapacity = start.DesiredCapacity
        /\ SuspendedProcesses = start.SuspendedProcesses
        /\ \A id \in Ids : inst[id] \notin {"terminating", "gone"}

\* The run with --force on a group of two at its max size, AZRebalance
\* suspended, ended on the failed request.
C32_Witness ==
    /\ ExpandFailed
    /\ options.force
    /\ start.MaxSize = 2 /\ start.DesiredCapacity = 2
    /\ SuspendedProcesses = {"AZRebalance"}
    /\ pc = "Done" /\ exitCode = 1

\* The request this step makes, when it makes one.
Requests(ops) ==
    /\ Len(calls') > Len(calls)
    /\ calls'[Len(calls')].op \in ops

\* C33 (as claimed): a suspension, a resumption or a deregistration that is
\* answered other than 200 does not end the process: the script goes on from
\* it as after a 200, a deregistration to the next source or to the removal
\* waits.
C33_ProcessAndDeregisterFailuresNeverAbort ==
    [][/\ Requests({"suspend_processes", "resume_processes",
                    "resume_all_processes", "deregister"})
             => (pc' # "Done" /\ exitCode' = -1)
       /\ Requests({"deregister"}) => (pc' = "Deregister" /\ k' = k + 1)]_vars

\* The run can get past the check of the processes: the group is there, and
\* no required process is suspended or --force is given.
Rollable ==
    /\ exists
    /\ options.force \/ start.SuspendedProcesses \cap required_processes = {}

\* The process ended with 0, every instance to kill asked to terminate and on
\* its way out of the group or out of it.
Succeeded ==
    /\ pc = "Done" /\ exitCode = 0
    /\ Len(TermCalls) = Len(instances_to_kill)
    /\ \A m \in 1..Len(instances_to_kill) :
           /\ TermCalls[m].id = instances_to_kill[m] /\ TermCalls[m].ok
           /\ inst[instances_to_kill[m]] \in {"terminating", "gone"}

PollsForever ==
    /\ pc \in {"ConvergeHealthy", "WaitNew", "Attach", "WaitRemoved", "DrainVerify"}
    /\ ~ENABLED <<Next>>_vars

====
